---- MODULE Spec2Model ----
(***************************************************************************)
(* Model of the document -> translations -> speech pipeline of src/main.py *)
(* (translate_upload and the functions it calls) with the job schema of    *)
(* src/schemas.py.                                                         *)
(*                                                                         *)
(* A Python str is a sequence of one-character strings; a path or a URL is *)
(* a sequence of the pieces the code formats it from.                      *)
(***************************************************************************)
EXTENDS Integers, Sequences, FiniteSets, TLC

\* ------------------------------------------------------------------ bounds
\* Longest text and largest max_len the chunker is checked on.
MaxTextLen == 5
MaxMaxLen == 4
\* Most structural units (PDF pages, DOCX paragraphs, text lines) of an upload.
MaxUnits == 2
\* chunk_text's default max_len; 4500 in the source (main.py:121), scaled to
\* the size of the texts of the model so that translate_text meets texts
\* on both sides of it.
DefaultMaxLen == 2
\* translated[:5000] of main.py:194
TranslatedTextMax == 5000

\* ----------------------------------------------------------------- strings
NL == "\n"
SP == " "

Whitespace == {SP, NL, "\t"}

\* s[:n]
Slice(s, n) == SubSeq(s, 1, IF n < Len(s) THEN n ELSE Len(s))

\* s.lstrip()
RECURSIVE lstrip(_)
lstrip(s) ==
    IF s # <<>> /\ Head(s) \in Whitespace THEN lstrip(Tail(s)) ELSE s

\* s.rstrip()
RECURSIVE rstrip(_)
rstrip(s) ==
    IF s # <<>> /\ s[Len(s)] \in Whitespace
    THEN rstrip(SubSeq(s, 1, Len(s) - 1))
    ELSE s

\* s.strip()
strip(s) == rstrip(lstrip(s))

\* "\n".join(parts)
RECURSIVE join(_)
join(parts) ==
    IF parts = <<>> THEN <<>>
    ELSE IF Len(parts) = 1 THEN parts[1]
    ELSE parts[1] \o <<NL>> \o join(Tail(parts))

\* s.split("\n"): always at least one piece
RECURSIVE split(_)
split(s) ==
    IF \A i \in 1..Len(s) : s[i] # NL
    THEN <<s>>
    ELSE LET i == CHOOSE k \in 1..Len(s) :
                      s[k] = NL /\ \A j \in 1..(k - 1) : s[j] # NL
         IN  <<SubSeq(s, 1, i - 1)>> \o split(SubSeq(s, i + 1, Len(s)))

\* ----------------------------------------------------------------- chunker
\* The body of chunk_text's for loop over text.split("\n"), from paragraph i on;
\* chunks, current, current_len are the loop's locals.  After the last
\* paragraph: "if current: chunks.append(...)"; return chunks.
RECURSIVE chunk_loop(_, _, _, _, _, _)
chunk_loop(paras, i, max_len, chunks, current, current_len) ==
    IF i > Len(paras)
    THEN IF current # <<>> THEN Append(chunks, join(current)) ELSE chunks
    ELSE LET para == paras[i] IN
         IF current_len + Len(para) + 1 > max_len
         THEN chunk_loop(paras, i + 1, max_len,
                         Append(chunks, join(current)), <<para>>, Len(para) + 1)
         ELSE chunk_loop(paras, i + 1, max_len,
                         chunks, Append(current, para), current_len + Len(para) + 1)

\* chunk_text with the separators left out of current_len
RECURSIVE chunk_loop_uncounted(_, _, _, _, _, _)
chunk_loop_uncounted(paras, i, max_len, chunks, current, current_len) ==
    IF i > Len(paras)
    THEN IF current # <<>> THEN Append(chunks, join(current)) ELSE chunks
    ELSE LET para == paras[i] IN
         IF current_len + Len(para) > max_len
         THEN chunk_loop_uncounted(paras, i + 1, max_len,
                         Append(chunks, join(current)), <<para>>, Len(para))
         ELSE chunk_loop_uncounted(paras, i + 1, max_len,
                         chunks, Append(current, para), current_len + Len(para))

chunk_text_uncounted_separator(text, max_len) ==
    IF Len(text) <= max_len
    THEN <<text>>
    ELSE chunk_loop_uncounted(split(text), 1, max_len, <<>>, <<>>, 0)

\* chunk_text with the single-chunk test strict: len(text) < max_len
chunk_text_strict_fast_path(text, max_len) ==
    IF Len(text) < max_len
    THEN <<text>>
    ELSE chunk_loop(split(text), 1, max_len, <<>>, <<>>, 0)

\* chunk_text closing the current chunk only when it holds a paragraph
RECURSIVE chunk_loop_guarded(_, _, _, _, _, _)
chunk_loop_guarded(paras, i, max_len, chunks, current, current_len) ==
    IF i > Len(paras)
    THEN IF current # <<>> THEN Append(chunks, join(current)) ELSE chunks
    ELSE LET para == paras[i] IN
         IF current_len + Len(para) + 1 > max_len
         THEN chunk_loop_guarded(paras, i + 1, max_len,
                         IF current # <<>> THEN Append(chunks, join(current)) ELSE chunks,
                         <<para>>, Len(para) + 1)
         ELSE chunk_loop_guarded(paras, i + 1, max_len,
                         chunks, Append(current, para), current_len + Len(para) + 1)

chunk_text_guarded_flush(text, max_len) ==
    IF Len(text) <= max_len
    THEN <<text>>
    ELSE chunk_loop_guarded(split(text), 1, max_len, <<>>, <<>>, 0)

chunk_text(text, max_len) ==
    IF Len(text) <= max_len
    THEN <<text>>
    ELSE chunk_loop(split(text), 1, max_len, <<>>, <<>>, 0)

\* ------------------------------------------------------- names and paths
NoneVal == "None"

\* SUPPORTED_LANGS.items(), in insertion order: <<lang_name, lang_code>>
SUPPORTED_LANGS == << <<"Hindi", "hi">>, <<"Telugu", "te">>, <<"Kannada", "kn">> >>

\* The extensions an uploaded filename may end with in the model.
Extensions == {".pdf", ".PDF", ".docx", ".txt", ".md", ".MD", ".csv"}

\* str.lower() on an extension
lower(e) ==
    CASE e = ".PDF" -> ".pdf"
      [] e = ".MD" -> ".md"
      [] OTHER -> e

\* os.path.splitext(path)[1]
splitext_ext(path) ==
    IF path # <<>> /\ path[Len(path)] \in Extensions
    THEN path[Len(path)]
    ELSE ""

\* os.path.join(dir, name)
path_join(dir, name) == dir \o <<"/">> \o name

OUTPUT_DIR == path_join(<<"BASE_DIR">>, <<"outputs">>)
AUDIO_DIR == path_join(OUTPUT_DIR, <<"audio">>)
TEXT_DIR == path_join(OUTPUT_DIR, <<"texts">>)

\* the extension check, asking only for some extension
ext_supported_any(ext) == ext # ""

\* the extension check of translate_upload
ext_supported(ext) == ext \in {".pdf", ".docx", ".txt", ".md"}

\* temp_path with one fixed name for every upload
temp_path_of_fixed_name(temp_id, ext) == path_join(OUTPUT_DIR, <<"upload_", "tmp", ext>>)

\* temp_path = os.path.join(OUTPUT_DIR, f"upload_{temp_id}{ext}")
temp_path_of(temp_id, ext) == path_join(OUTPUT_DIR, <<"upload_", temp_id, ext>>)

text_fname_of(temp_id, lang_code) == <<temp_id, "_", lang_code, ".txt">>
text_rel_of(temp_id, lang_code) == <<"texts", "/">> \o text_fname_of(temp_id, lang_code)
text_path_of(temp_id, lang_code) == path_join(TEXT_DIR, text_fname_of(temp_id, lang_code))

audio_fname_of(temp_id, lang_code) == <<temp_id, "_", lang_code, ".mp3">>
audio_rel_of(temp_id, lang_code) == <<"audio", "/">> \o audio_fname_of(temp_id, lang_code)
audio_path_of(temp_id, lang_code) == path_join(AUDIO_DIR, audio_fname_of(temp_id, lang_code))

\* f"/outputs/{rel}"
outputs_url(rel) == <<"/outputs", "/">> \o rel

\* app.mount("/outputs", StaticFiles(directory=OUTPUT_DIR)): the file a URL names
resolve_url(url) ==
    IF url # <<>> /\ url[1] = "/outputs" THEN OUTPUT_DIR \o Tail(url) ELSE <<>>

\* ---------------------------------------------------------------- extraction
\* An uploaded file is its structural units (PDF pages, DOCX paragraphs,
\* lines of a text file) and, for a PDF, the pages whose extract_text() throws.
UnitTexts == { <<SP>>, <<"a">>, <<"a", "a">> }

RECURSIVE SeqsUpTo(_, _)
SeqsUpTo(S, n) ==
    IF n = 0 THEN { <<>> }
    ELSE LET shorter == SeqsUpTo(S, n - 1)
         IN  shorter \cup { Append(q, x) : q \in { t \in shorter : Len(t) = n - 1 }, x \in S }

\* The pages of a PDF: a page that throws contributes "".
page_texts(file) ==
    [i \in 1..Len(file.units) |-> IF i \in file.bad THEN <<>> ELSE file.units[i]]

\* extract_text_from_file, for an extension it supports
extract_text_from_file(ext, file) ==
    CASE ext = ".pdf" -> strip(join(page_texts(file)))
      [] ext = ".docx" -> strip(join(file.units))
      [] ext \in {".txt", ".md"} -> join(file.units)

\* GoogleTranslator(source="en", target=dest_lang).translate(ch), when it
\* succeeds: an opaque text that depends on the language and the chunk.
translate_result(dest_lang, ch) == <<dest_lang>> \o ch

\* TranslationOutput(...) with the text file's name under audio_path
TranslationOutput_text_for_audio(lang_name, lang_code, translated, temp_id) ==
    [ language |-> lang_name,
      translated_text |-> Slice(translated, TranslatedTextMax),
      audio_path |-> outputs_url(text_rel_of(temp_id, lang_code)),
      text_path |-> outputs_url(text_rel_of(temp_id, lang_code)) ]

\* TranslationOutput(...) of main.py:192-197
TranslationOutput(lang_name, lang_code, translated, temp_id) ==
    [ language |-> lang_name,
      translated_text |-> Slice(translated, TranslatedTextMax),
      audio_path |-> outputs_url(audio_rel_of(temp_id, lang_code)),
      text_path |-> outputs_url(text_rel_of(temp_id, lang_code)) ]

\* TranslationJob(...) of main.py:199-205 and 216-223
TranslationJob(job_name, filename, status, outputs, error) ==
    [ job_name |-> job_name,
      source_filename |-> filename,
      source_language |-> "en",
      status |-> status,
      outputs |-> outputs,
      error |-> error ]

\* ------------------------------------------------------------------- state
\* run[r]: the locals of one call of translate_upload (pc: where it stands;
\*         calls: the external calls it has made so far, in order);
\* db:     the documents create_document has written, oldest first;
\* fs:     the files under OUTPUT_DIR: path -> "partial" | "complete";
\* c_*:    one call of chunk_text on its own.
VARIABLES run, db, fs, c_pc, c_text, c_max_len, c_chunks

vars == <<run, db, fs, c_pc, c_text, c_max_len, c_chunks>>
pipeline_vars == <<run, db, fs>>
chunker_vars == <<c_pc, c_text, c_max_len, c_chunks>>

RunIds == {1, 2}
UploadIds == {"u1", "u2"}
JobNames == {NoneVal, "job"}

Filenames == { <<"doc", e>> : e \in Extensions } \cup { <<"doc">> }

Files ==
    UNION { { [units |-> u, bad |-> b] : b \in SUBSET (1..Len(u)) } :
            u \in SeqsUpTo(UnitTexts, MaxUnits) }

Texts == SeqsUpTo({"a", "b", NL}, MaxTextLen)

Call(op, lang, arg, ok) == [op |-> op, lang |-> lang, arg |-> arg, ok |-> ok]

\* How the call ends: a JSONResponse, an HTTPException, or any other exception.
Returned == [kind |-> "return", code |-> 200, detail |-> <<>>]
HTTPException(status_code, detail) ==
    [kind |-> "HTTPException", code |-> status_code, detail |-> detail]
Unhandled(e) == [kind |-> "exception", code |-> 500, detail |-> <<e>>]
Pending == [kind |-> "pending", code |-> 0, detail |-> <<>>]

IdleRun ==
    [ pc |-> "idle", filename |-> <<>>, file |-> [units |-> <<>>, bad |-> {}],
      job_name |-> NoneVal, ext |-> "", temp_id |-> "", source_text |-> <<>>,
      lang_i |-> 0, chunks |-> <<>>, translated_chunks |-> <<>>,
      translated |-> <<>>, outputs |-> <<>>, exc |-> NoneVal,
      raised |-> Pending, calls |-> <<>> ]

temp_path(r) == temp_path_of(run[r].temp_id, run[r].ext)
lang_name(r) == SUPPORTED_LANGS[run[r].lang_i][1]
lang_code(r) == SUPPORTED_LANGS[run[r].lang_i][2]

FsWrite(f, p, v) == [q \in DOMAIN f \cup {p} |-> IF q = p THEN v ELSE f[q]]
FsRemove(f, p) == [q \in DOMAIN f \ {p} |-> f[q]]

\* create_document(collection, job), when it succeeds; by: the run that wrote it
create_document(d, r, job) ==
    Append(d, [collection |-> "translationjob", doc |-> job, by |-> r])

Logged(r, c) == Append(run[r].calls, c)

ChunkerIdle ==
    /\ c_pc = "off" /\ c_text = <<>> /\ c_max_len = 0 /\ c_chunks = <<>>

Init ==
    /\ run = [r \in RunIds |-> IdleRun]
    /\ db = <<>>
    /\ fs = <<>>
    /\ ChunkerIdle

\* ----------------------------------------------------------------- actions
\* main.py:155-161: a request arrives
Start(r) ==
    /\ run[r].pc = "idle"
    /\ \E fn \in Filenames, f \in Files, jn \in JobNames :
         /\ f.bad # {} => lower(splitext_ext(fn)) = ".pdf"
         /\ run' = [run EXCEPT ![r] =
                [@ EXCEPT !.pc = "check_ext", !.filename = fn, !.file = f,
                          !.job_name = jn, !.ext = lower(splitext_ext(fn))]]
    /\ UNCHANGED <<db, fs, chunker_vars>>

\* main.py:162-166
CheckExt(r) ==
    /\ run[r].pc = "check_ext"
    /\ IF ~ext_supported(run[r].ext)
       THEN run' = [run EXCEPT ![r] =
                [@ EXCEPT !.pc = "done",
                          !.raised = HTTPException(400,
                              <<"Please upload a PDF, DOCX, or TXT file.">>)]]
       ELSE \E id \in UploadIds :
              run' = [run EXCEPT ![r] = [@ EXCEPT !.pc = "open_temp", !.temp_id = id]]
    /\ UNCHANGED <<db, fs, chunker_vars>>

\* main.py:167: open(temp_path, "wb"), outside the try
OpenTemp(r) ==
    /\ run[r].pc = "open_temp"
    /\ \/ /\ fs' = FsWrite(fs, temp_path(r), "partial")
          /\ run' = [run EXCEPT ![r] =
                [@ EXCEPT !.pc = "write_temp",
                          !.calls = Logged(r, Call("open_temp", "", <<>>, TRUE))]]
       \/ /\ fs' = fs
          /\ run' = [run EXCEPT ![r] =
                [@ EXCEPT !.pc = "done", !.raised = Unhandled("OSError"),
                          !.calls = Logged(r, Call("open_temp", "", <<>>, FALSE))]]
    /\ UNCHANGED <<db, chunker_vars>>

\* main.py:168: f.write(await file.read()), outside the try
WriteTemp(r) ==
    /\ run[r].pc = "write_temp"
    /\ \/ /\ fs' = FsWrite(fs, temp_path(r), "complete")
          /\ run' = [run EXCEPT ![r] =
                [@ EXCEPT !.pc = "extract",
                          !.calls = Logged(r, Call("write_temp", "", <<>>, TRUE))]]
       \/ /\ fs' = fs
          /\ run' = [run EXCEPT ![r] =
                [@ EXCEPT !.pc = "done", !.raised = Unhandled("OSError"),
                          !.calls = Logged(r, Call("write_temp", "", <<>>, FALSE))]]
    /\ UNCHANGED <<db, chunker_vars>>

\* main.py:171 and 100-118: the reader may throw on the whole file
Extract(r) ==
    /\ run[r].pc = "extract"
    /\ IF ~(splitext_ext(temp_path(r)) \in {".pdf", ".docx", ".txt", ".md"})
       THEN run' = [run EXCEPT ![r] =
                [@ EXCEPT !.pc = "finally",
                          !.raised = HTTPException(400,
                              <<"Unsupported file type. Please upload PDF, DOCX, or TXT.">>),
                          !.calls = Logged(r, Call("extract", "", <<>>, FALSE))]]
       ELSE \/ run' = [run EXCEPT ![r] =
                [@ EXCEPT !.pc = "check_empty",
                          !.source_text = extract_text_from_file(
                              lower(splitext_ext(temp_path(r))), run[r].file),
                          !.calls = Logged(r, Call("extract", "", <<>>, TRUE))]]
            \/ run' = [run EXCEPT ![r] =
                [@ EXCEPT !.pc = "except", !.exc = "ExtractError",
                          !.calls = Logged(r, Call("extract", "", <<>>, FALSE))]]
    /\ UNCHANGED <<db, fs, chunker_vars>>

\* main.py:172-175 with 212-213: the HTTPException is re-raised as it is
CheckEmpty(r) ==
    /\ run[r].pc = "check_empty"
    /\ IF run[r].source_text = <<>>
       THEN run' = [run EXCEPT ![r] =
                [@ EXCEPT !.pc = "finally",
                          !.raised = HTTPException(400,
                              <<"Could not extract text from the file.">>)]]
       ELSE run' = [run EXCEPT ![r] =
                [@ EXCEPT !.pc = "for_lang", !.outputs = <<>>, !.lang_i = 1]]
    /\ UNCHANGED <<db, fs, chunker_vars>>

\* the language loop, ending one language early
ForLang_stops_early(r) ==
    /\ run[r].pc = "for_lang"
    /\ IF run[r].lang_i > Len(SUPPORTED_LANGS) - 1
       THEN run' = [run EXCEPT ![r] = [@ EXCEPT !.pc = "persist"]]
       ELSE run' = [run EXCEPT ![r] =
                [@ EXCEPT !.pc = "translate",
                          !.chunks = chunk_text(run[r].source_text, DefaultMaxLen),
                          !.translated_chunks = <<>>]]
    /\ UNCHANGED <<db, fs, chunker_vars>>

\* main.py:176 (next language, or the loop ends) and 140-143
ForLang(r) ==
    /\ run[r].pc = "for_lang"
    /\ IF run[r].lang_i > Len(SUPPORTED_LANGS)
       THEN run' = [run EXCEPT ![r] = [@ EXCEPT !.pc = "persist"]]
       ELSE run' = [run EXCEPT ![r] =
                [@ EXCEPT !.pc = "translate",
                          !.chunks = chunk_text(run[r].source_text, DefaultMaxLen),
                          !.translated_chunks = <<>>]]
    /\ UNCHANGED <<db, fs, chunker_vars>>

\* the chunk loop, carrying on with the untranslated chunk when a call fails
TranslateChunk_swallows_failure(r) ==
    /\ run[r].pc = "translate"
    /\ Len(run[r].translated_chunks) < Len(run[r].chunks)
    /\ LET ch == run[r].chunks[Len(run[r].translated_chunks) + 1] IN
       \/ run' = [run EXCEPT ![r] =
                [@ EXCEPT !.translated_chunks =
                              Append(@, translate_result(lang_code(r), ch)),
                          !.calls = Logged(r, Call("translate", lang_code(r), ch, TRUE))]]
       \/ run' = [run EXCEPT ![r] =
                [@ EXCEPT !.translated_chunks = Append(@, ch),
                          !.calls = Logged(r, Call("translate", lang_code(r), ch, FALSE))]]
    /\ UNCHANGED <<db, fs, chunker_vars>>

\* main.py:144-145: one translator.translate(ch)
TranslateChunk(r) ==
    /\ run[r].pc = "translate"
    /\ Len(run[r].translated_chunks) < Len(run[r].chunks)
    /\ LET ch == run[r].chunks[Len(run[r].translated_chunks) + 1] IN
       \/ run' = [run EXCEPT ![r] =
                [@ EXCEPT !.translated_chunks =
                              Append(@, translate_result(lang_code(r), ch)),
                          !.calls = Logged(r, Call("translate", lang_code(r), ch, TRUE))]]
       \/ run' = [run EXCEPT ![r] =
                [@ EXCEPT !.pc = "except", !.exc = "TranslationError",
                          !.calls = Logged(r, Call("translate", lang_code(r), ch, FALSE))]]
    /\ UNCHANGED <<db, fs, chunker_vars>>

\* translate_text returning the translated chunks run together, no newline
RECURSIVE concat(_)
concat(parts) == IF parts = <<>> THEN <<>> ELSE parts[1] \o concat(Tail(parts))

TranslateReturn_no_separator(r) ==
    /\ run[r].pc = "translate"
    /\ Len(run[r].translated_chunks) = Len(run[r].chunks)
    /\ run' = [run EXCEPT ![r] =
            [@ EXCEPT !.pc = "write_text", !.translated = concat(run[r].translated_chunks)]]
    /\ UNCHANGED <<db, fs, chunker_vars>>

\* translate_text leaving its loop only once it holds more than every chunk
TranslateReturn_never_exits(r) ==
    /\ run[r].pc = "translate"
    /\ Len(run[r].translated_chunks) > Len(run[r].chunks)
    /\ run' = [run EXCEPT ![r] =
            [@ EXCEPT !.pc = "write_text", !.translated = join(run[r].translated_chunks)]]
    /\ UNCHANGED <<db, fs, chunker_vars>>

\* main.py:146 and 177
TranslateReturn(r) ==
    /\ run[r].pc = "translate"
    /\ Len(run[r].translated_chunks) = Len(run[r].chunks)
    /\ run' = [run EXCEPT ![r] =
            [@ EXCEPT !.pc = "write_text", !.translated = join(run[r].translated_chunks)]]
    /\ UNCHANGED <<db, fs, chunker_vars>>

\* main.py:180-184: a failed write may leave a partial file, or none
WriteText(r) ==
    /\ run[r].pc = "write_text"
    /\ LET p == text_path_of(run[r].temp_id, lang_code(r)) IN
       \/ /\ fs' = FsWrite(fs, p, "complete")
          /\ run' = [run EXCEPT ![r] =
                [@ EXCEPT !.pc = "synthesize",
                          !.calls = Logged(r, Call("write_text", lang_code(r), <<>>, TRUE))]]
       \/ /\ fs' \in {fs, FsWrite(fs, p, "partial")}
          /\ run' = [run EXCEPT ![r] =
                [@ EXCEPT !.pc = "except", !.exc = "OSError",
                          !.calls = Logged(r, Call("write_text", lang_code(r), <<>>, FALSE))]]
    /\ UNCHANGED <<db, chunker_vars>>

\* main.py:187-190 and 149-151: a failed save may leave a partial file, or none
Synthesize(r) ==
    /\ run[r].pc = "synthesize"
    /\ LET p == audio_path_of(run[r].temp_id, lang_code(r)) IN
       \/ /\ fs' = FsWrite(fs, p, "complete")
          /\ run' = [run EXCEPT ![r] =
                [@ EXCEPT !.pc = "append",
                          !.calls = Logged(r, Call("synthesize", lang_code(r),
                                                   run[r].translated, TRUE))]]
       \/ /\ fs' \in {fs, FsWrite(fs, p, "partial")}
          /\ run' = [run EXCEPT ![r] =
                [@ EXCEPT !.pc = "except", !.exc = "SynthesisError",
                          !.calls = Logged(r, Call("synthesize", lang_code(r),
                                                   run[r].translated, FALSE))]]
    /\ UNCHANGED <<db, chunker_vars>>

\* main.py:192-197
AppendOutput(r) ==
    /\ run[r].pc = "append"
    /\ run' = [run EXCEPT ![r] =
            [@ EXCEPT !.pc = "for_lang",
                      !.outputs = Append(@, TranslationOutput(lang_name(r), lang_code(r),
                                                run[r].translated, run[r].temp_id)),
                      !.lang_i = @ + 1]]
    /\ UNCHANGED <<db, fs, chunker_vars>>

\* main.py:199-206
PersistCompleted(r) ==
    /\ run[r].pc = "persist"
    /\ LET job == TranslationJob(run[r].job_name, run[r].filename, "completed",
                                 run[r].outputs, NoneVal) IN
       \/ /\ db' = create_document(db, r, job)
          /\ run' = [run EXCEPT ![r] =
                [@ EXCEPT !.pc = "return",
                          !.calls = Logged(r, Call("create_document", "", <<"completed">>, TRUE))]]
       \/ /\ db' = db
          /\ run' = [run EXCEPT ![r] =
                [@ EXCEPT !.pc = "except", !.exc = "PersistenceError",
                          !.calls = Logged(r, Call("create_document", "", <<"completed">>, FALSE))]]
    /\ UNCHANGED <<fs, chunker_vars>>

\* main.py:208-211
Return(r) ==
    /\ run[r].pc = "return"
    /\ run' = [run EXCEPT ![r] = [@ EXCEPT !.pc = "finally", !.raised = Returned]]
    /\ UNCHANGED <<db, fs, chunker_vars>>

\* the handler, persisting the outputs produced before the failure
ExceptHandler_keeps_outputs(r) ==
    /\ run[r].pc = "except"
    /\ LET job == TranslationJob(run[r].job_name, run[r].filename, "error",
                                 run[r].outputs, run[r].exc) IN
       \/ /\ db' = create_document(db, r, job)
          /\ run' = [run EXCEPT ![r] =
                [@ EXCEPT !.pc = "finally",
                          !.raised = HTTPException(500, <<"Processing failed: ", run[r].exc>>),
                          !.calls = Logged(r, Call("create_document", "", <<"error">>, TRUE))]]
       \/ /\ db' = db
          /\ run' = [run EXCEPT ![r] =
                [@ EXCEPT !.pc = "finally", !.raised = Unhandled("PersistenceError"),
                          !.calls = Logged(r, Call("create_document", "", <<"error">>, FALSE))]]
    /\ UNCHANGED <<fs, chunker_vars>>

\* main.py:214-225: except Exception as e
ExceptHandler(r) ==
    /\ run[r].pc = "except"
    /\ LET job == TranslationJob(run[r].job_name, run[r].filename, "error",
                                 <<>>, run[r].exc) IN
       \/ /\ db' = create_document(db, r, job)
          /\ run' = [run EXCEPT ![r] =
                [@ EXCEPT !.pc = "finally",
                          !.raised = HTTPException(500, <<"Processing failed: ", run[r].exc>>),
                          !.calls = Logged(r, Call("create_document", "", <<"error">>, TRUE))]]
       \/ /\ db' = db
          /\ run' = [run EXCEPT ![r] =
                [@ EXCEPT !.pc = "finally", !.raised = Unhandled("PersistenceError"),
                          !.calls = Logged(r, Call("create_document", "", <<"error">>, FALSE))]]
    /\ UNCHANGED <<fs, chunker_vars>>

\* the finally block, clearing the run's text and audio files too when the
\* call does not end with a response
Finally_cleans_artifacts(r) ==
    /\ run[r].pc = "finally"
    /\ LET mine == { p \in DOMAIN fs :
                       \/ p = temp_path(r)
                       \/ /\ run[r].raised.kind # "return"
                          /\ p[5] \in {"texts", "audio"}
                          /\ p[7] = run[r].temp_id }
       IN  IF temp_path(r) \in DOMAIN fs
           THEN \/ /\ fs' = [q \in DOMAIN fs \ mine |-> fs[q]]
                   /\ run' = [run EXCEPT ![r] =
                         [@ EXCEPT !.pc = "done",
                                   !.calls = Logged(r, Call("remove", "", <<>>, TRUE))]]
                \/ /\ fs' = fs
                   /\ run' = [run EXCEPT ![r] =
                         [@ EXCEPT !.pc = "done",
                                   !.calls = Logged(r, Call("remove", "", <<>>, FALSE))]]
           ELSE /\ fs' = fs
                /\ run' = [run EXCEPT ![r] = [@ EXCEPT !.pc = "done"]]
    /\ UNCHANGED <<db, chunker_vars>>

\* main.py:226-231: a failing os.remove is swallowed
Finally(r) ==
    /\ run[r].pc = "finally"
    /\ IF temp_path(r) \in DOMAIN fs
       THEN \/ /\ fs' = FsRemove(fs, temp_path(r))
               /\ run' = [run EXCEPT ![r] =
                     [@ EXCEPT !.pc = "done",
                               !.calls = Logged(r, Call("remove", "", <<>>, TRUE))]]
            \/ /\ fs' = fs
               /\ run' = [run EXCEPT ![r] =
                     [@ EXCEPT !.pc = "done",
                               !.calls = Logged(r, Call("remove", "", <<>>, FALSE))]]
       ELSE /\ fs' = fs
            /\ run' = [run EXCEPT ![r] = [@ EXCEPT !.pc = "done"]]
    /\ UNCHANGED <<db, chunker_vars>>

\* The steps of a call once it has started.
Steps(r) ==
    \/ CheckExt(r)
    \/ OpenTemp(r)
    \/ WriteTemp(r)
    \/ Extract(r)
    \/ CheckEmpty(r)
    \/ ForLang(r)
    \/ TranslateChunk(r)
    \/ TranslateReturn(r)
    \/ WriteText(r)
    \/ Synthesize(r)
    \/ AppendOutput(r)
    \/ PersistCompleted(r)
    \/ Return(r)
    \/ ExceptHandler(r)
    \/ Finally(r)

Step(r) ==
    \/ Start(r)
    \/ Steps(r)

\* One upload at a time.
Next == Step(1)

Spec == Init /\ [][Next]_vars

\* The request handler keeps running and every external call returns or
\* fails: a started call always takes its next step.
SpecLive == Init /\ [][Next]_vars /\ WF_vars(Steps(1))

\* ------------------------------------------------- two uploads at once
\* Two requests, each of a text file, served concurrently: their steps
\* interleave in any order.  Each draws its upload id from UploadIds, so the
\* ids may or may not differ.
ConcFiles == { [units |-> << <<"a">> >>, bad |-> {}],
               [units |-> << <<"a", "a">> >>, bad |-> {}] }

StartConc(r) ==
    /\ run[r].pc = "idle"
    /\ \E f \in ConcFiles :
         run' = [run EXCEPT ![r] =
                [@ EXCEPT !.pc = "check_ext", !.filename = <<"doc", ".txt">>, !.file = f,
                          !.job_name = NoneVal,
                          !.ext = lower(splitext_ext(<<"doc", ".txt">>))]]
    /\ UNCHANGED <<db, fs, chunker_vars>>

NextConc ==
    \E r \in RunIds :
        \/ StartConc(r)
        \/ Steps(r)

SpecConc == Init /\ [][NextConc]_vars

\* ------------------------------------------------- chunk_text on its own
InitChunk ==
    /\ run = [r \in RunIds |-> IdleRun]
    /\ db = <<>>
    /\ fs = <<>>
    /\ c_pc = "call"
    /\ c_text \in Texts
    /\ c_max_len \in (0 - 1)..MaxMaxLen
    /\ c_chunks = <<>>

\* main.py:121-137
ChunkCall ==
    /\ c_pc = "call"
    /\ c_chunks' = chunk_text(c_text, c_max_len)
    /\ c_pc' = "returned"
    /\ UNCHANGED <<c_text, c_max_len, pipeline_vars>>

NextChunk == ChunkCall

SpecChunk == InitChunk /\ [][NextChunk]_vars

\* ------------------------------------------------------------ observations
RecordsOf(r) == { i \in 1..Len(db) : db[i].by = r }

CallsOf(r, ops) == { i \in 1..Len(run[r].calls) : run[r].calls[i].op \in ops }

FailedCallsOf(r, ops) == { i \in CallsOf(r, ops) : ~run[r].calls[i].ok }

\* The upload was saved and extraction returned text (possibly empty).
Extracted(r) ==
    \E i \in CallsOf(r, {"extract"}) : run[r].calls[i].ok

IsBlank(s) == \A i \in 1..Len(s) : s[i] \in Whitespace

\* The message of the translation or synthesis failure of the run, if any.
StepFailure(r) ==
    IF FailedCallsOf(r, {"translate"}) # {} THEN "TranslationError"
    ELSE IF FailedCallsOf(r, {"synthesize"}) # {} THEN "SynthesisError"
    ELSE NoneVal

\* ------------------------------------------------------------------ claims

\* C1 (as stated; refuted by the code): every run that passes the extension
\* check persists exactly one TranslationJob record.  Stated here for the
\* runs most favourable to it: the upload was saved to the temporary file and
\* no create_document call failed.
C1_ExactlyOneRecordPerRun ==
    \A r \in RunIds :
        ( /\ run[r].pc = "done"
          /\ run[r].ext \in {".pdf", ".docx", ".txt", ".md"}
          /\ CallsOf(r, {"write_temp"}) # {}
          /\ FailedCallsOf(r, {"write_temp", "create_document"}) = {} )
        => Cardinality(RecordsOf(r)) = 1

\* C2: every persisted record with status "completed" holds exactly one
\* output per configured language, in the order Hindi/hi, Telugu/te,
\* Kannada/kn: never fewer outputs than languages.
C2_CompletedHasEveryLanguage ==
    \A i \in 1..Len(db) :
        db[i].doc.status = "completed" =>
            /\ Len(db[i].doc.outputs) = 3
            /\ [k \in 1..3 |-> db[i].doc.outputs[k].language]
                   = <<"Hindi", "Telugu", "Kannada">>
            /\ [k \in 1..3 |-> db[i].doc.outputs[k].translated_text[1]]
                   = <<"hi", "te", "kn">>

\* C2's case: a completed record of a document that took several chunks.
C2_Witness ==
    /\ Len(db) = 1
    /\ db[1].doc.status = "completed"
    /\ Len(run[1].chunks) > 1

\* C3 (as stated; refuted by the code): when translation or synthesis fails
\* for some language, the run persists a record with status "error", no
\* outputs and the captured message, and the caller gets a failure response.
C3_FailurePersistsErrorRecord ==
    \A r \in RunIds :
        (run[r].pc = "done" /\ StepFailure(r) # NoneVal) =>
            /\ run[r].raised.kind # "return"
            /\ \E i \in RecordsOf(r) :
                   /\ db[i].doc.status = "error"
                   /\ db[i].doc.outputs = <<>>
                   /\ db[i].doc.error = StepFailure(r)

\* C3 (amended): when translation or synthesis fails for some language, the
\* run makes exactly one create_document call, for a record with status
\* "error", no outputs and the captured message.  If that call succeeds the
\* record is the only one of the run and the caller gets the HTTP 500
\* "Processing failed" response; if it fails nothing is persisted for the run
\* and the caller gets the persistence exception.  Never a success response,
\* never a record with outputs.
C3_FailureAttemptsErrorRecord ==
    \A r \in RunIds :
        (run[r].pc = "done" /\ StepFailure(r) # NoneVal) =>
            LET creates == CallsOf(r, {"create_document"}) IN
            /\ run[r].raised.kind # "return"
            /\ Cardinality(creates) = 1
            /\ \A c \in creates :
                 /\ run[r].calls[c].arg = <<"error">>
                 /\ IF run[r].calls[c].ok
                    THEN /\ Cardinality(RecordsOf(r)) = 1
                         /\ \A i \in RecordsOf(r) :
                              /\ db[i].doc.status = "error"
                              /\ db[i].doc.outputs = <<>>
                              /\ db[i].doc.error = StepFailure(r)
                              /\ db[i].doc.source_filename = run[r].filename
                         /\ run[r].raised.kind = "HTTPException"
                         /\ run[r].raised.code = 500
                         /\ run[r].raised.detail = <<"Processing failed: ", StepFailure(r)>>
                    ELSE /\ RecordsOf(r) = {}
                         /\ run[r].raised.kind = "exception"

\* C3's case: synthesis fails for the last language, after two outputs were
\* produced, and the error record is persisted without them.
C3_Witness ==
    /\ run[1].pc = "done"
    /\ Len(run[1].outputs) = 2
    /\ StepFailure(1) = "SynthesisError"
    /\ Len(db) = 1
    /\ db[1].doc.status = "error"
    /\ db[1].doc.outputs = <<>>

\* C4 (as stated; refuted by the code): when extraction yields the empty
\* string, a record with status "error", the message "Could not extract text
\* from the file." and no outputs is persisted, and no translation or
\* synthesis call is made.
C4_EmptyExtractionPersistsError ==
    \A r \in RunIds :
        (run[r].pc = "done" /\ Extracted(r) /\ run[r].source_text = <<>>) =>
            /\ CallsOf(r, {"translate", "synthesize"}) = {}
            /\ \E i \in RecordsOf(r) :
                   /\ db[i].doc.status = "error"
                   /\ db[i].doc.outputs = <<>>
                   /\ db[i].doc.error = "Could not extract text from the file."

\* C5 (as stated; refuted by the code): once the temporary upload file has
\* been created it no longer exists when translate_upload returns or raises.
\* Stated here for the runs in which no os.remove failed.
C5_TempFileGoneAtExit ==
    \A r \in RunIds :
        ( /\ run[r].pc = "done"
          /\ \E i \in CallsOf(r, {"open_temp"}) : run[r].calls[i].ok
          /\ FailedCallsOf(r, {"remove"}) = {} )
        => temp_path(r) \notin DOMAIN fs

\* C6 (as stated; refuted by the code): joining the chunks of
\* chunk_text(T, max_len) with a newline gives back T.  Stated here for
\* max_len >= 1.
C6_RoundTrip ==
    (c_pc = "returned" /\ c_max_len >= 1) => join(c_chunks) = c_text

\* C7: every chunk is at most max_len long, except a chunk that is one
\* paragraph (no newline in it) longer than max_len; and every paragraph of
\* the text longer than max_len is a chunk by itself, once per occurrence.
C7_ChunkLengthBound ==
    c_pc = "returned" =>
        /\ \A k \in 1..Len(c_chunks) :
               \/ Len(c_chunks[k]) <= c_max_len
               \/ \A j \in 1..Len(c_chunks[k]) : c_chunks[k][j] # NL
        /\ LET paras == split(c_text) IN
           \A i \in 1..Len(paras) :
               Len(paras[i]) > c_max_len =>
                   Cardinality({ k \in 1..Len(c_chunks) : c_chunks[k] = paras[i] })
                       >= Cardinality({ j \in 1..Len(paras) : paras[j] = paras[i] })

\* C7's case: an oversized paragraph between two other chunks.
C7_Witness ==
    /\ c_pc = "returned"
    /\ c_max_len >= 1
    /\ Len(c_chunks) >= 3
    /\ \E k \in 2..(Len(c_chunks) - 1) :
           /\ Len(c_chunks[k]) > c_max_len
           /\ c_chunks[k - 1] # <<>>

\* C8 (as stated; refuted by the code): an extraction result that is empty
\* or only whitespace is an extraction failure for every supported format:
\* no translation call is made on it.
C8_BlankExtractionNotTranslated ==
    \A r \in RunIds :
        (Extracted(r) /\ IsBlank(run[r].source_text)) =>
            CallsOf(r, {"translate"}) = {}

\* C9: an upload whose extension is none of .pdf, .docx, .txt, .md (in any
\* letter case) is rejected at once: no temporary file, no extraction,
\* translation, synthesis or persistence call, no record.
C9_UnsupportedRejectedFirst ==
    \A r \in RunIds :
        ( /\ run[r].pc # "idle"
          /\ \/ Len(run[r].filename) < 2
             \/ run[r].filename[2] \notin {".pdf", ".PDF", ".docx", ".txt", ".md", ".MD"} )
        => /\ run[r].pc \in {"check_ext", "done"}
           /\ run[r].calls = <<>>
           /\ RecordsOf(r) = {}
           /\ run[r].temp_id = ""
           /\ run[r].pc = "done" =>
                  (run[r].raised.kind = "HTTPException" /\ run[r].raised.code = 400)

\* C9's case: a .csv upload has been answered.
C9_Witness ==
    /\ run[1].pc = "done"
    /\ run[1].filename = <<"doc", ".csv">>
    /\ run[1].raised.code = 400
    /\ fs = <<>>

\* C10: in every persisted "completed" record, output k names the artifacts
\* {upload-id}_{lang-code}.txt and .mp3 of the run's upload id and of the
\* k-th language, and both files are there, completely written.
C10_CompletedArtifactsResolvable ==
    \A i \in 1..Len(db) :
        db[i].doc.status = "completed" =>
            \A k \in 1..Len(db[i].doc.outputs) :
                LET o == db[i].doc.outputs[k]
                    id == run[db[i].by].temp_id
                    code == <<"hi", "te", "kn">>[k]
                IN  /\ o.text_path = <<"/outputs", "/", "texts", "/", id, "_", code, ".txt">>
                    /\ o.audio_path = <<"/outputs", "/", "audio", "/", id, "_", code, ".mp3">>
                    /\ resolve_url(o.text_path) \in DOMAIN fs
                    /\ resolve_url(o.audio_path) \in DOMAIN fs
                    /\ fs[resolve_url(o.text_path)] = "complete"
                    /\ fs[resolve_url(o.audio_path)] = "complete"

\* C10's case: the success response of a run whose record is persisted.
C10_Witness ==
    /\ run[1].pc = "done"
    /\ run[1].raised.kind = "return"
    /\ Len(db) = 1
    /\ Len(db[1].doc.outputs) = 3
    /\ Cardinality(DOMAIN fs) = 6

\* C11: for every text T with len(T) <= max_len, chunk_text(T, max_len)
\* returns exactly one chunk, equal to T.
C11_ShortTextIsOneChunk ==
    (c_pc = "returned" /\ Len(c_text) <= c_max_len) => c_chunks = <<c_text>>

\* C11's case: a text of several paragraphs, exactly max_len long.
C11_Witness ==
    /\ c_pc = "returned"
    /\ Len(c_text) = c_max_len
    /\ Len(split(c_text)) >= 2
    /\ Len(c_chunks) = 1

\* C14: for a text of length exactly max_len + 1 whose final paragraph alone
\* is longer than max_len (so the text is that one paragraph), chunk_text
\* returns exactly two chunks: the first at most max_len long, the second
\* the paragraph.  max_len >= 0: no chunk is shorter than 0.
C14_OversizedFinalParagraph ==
    LET paras == split(c_text) IN
    ( /\ c_pc = "returned"
      /\ c_max_len >= 0
      /\ Len(c_text) = c_max_len + 1
      /\ Len(paras[Len(paras)]) > c_max_len )
    => /\ Len(c_chunks) = 2
       /\ Len(c_chunks[1]) <= c_max_len
       /\ c_chunks[2] = paras[Len(paras)]

\* C14's case: a paragraph of max_len + 1 characters has been chunked.
C14_Witness ==
    /\ c_pc = "returned"
    /\ c_max_len >= 2
    /\ Len(c_text) = c_max_len + 1
    /\ \A i \in 1..Len(c_text) : c_text[i] # NL
    /\ Len(c_chunks) = 2

\* The place of a language code in the iteration order.
LangCodes == <<"hi", "te", "kn">>
LangIndex(code) == CHOOSE k \in 1..3 : LangCodes[k] = code

\* C12: within one run the steps are strictly ordered.  No translation,
\* text-writing or synthesis call before extraction returned non-empty text;
\* a language's synthesis call only after all its translation calls
\* succeeded; the first translation call of language k+1 only after the
\* synthesis of language k succeeded; the "completed" record is persisted
\* only after the last language's synthesis succeeded, an "error" record only
\* after a failure; and no translation or synthesis call after a failure.
C12_StepsInOrder ==
    \A r \in RunIds :
        LET cs == run[r].calls
            n == Len(cs)
        IN
        \A i \in 1..n :
            /\ cs[i].op \in {"translate", "write_text", "synthesize"} =>
                   /\ \E j \in 1..(i - 1) : cs[j].op = "extract" /\ cs[j].ok
                   /\ run[r].source_text # <<>>
            /\ cs[i].op = "synthesize" =>
                   /\ \E j \in 1..(i - 1) : cs[j].op = "translate" /\ cs[j].lang = cs[i].lang
                   /\ \A j \in 1..n :
                          (cs[j].op = "translate" /\ cs[j].lang = cs[i].lang) =>
                              (j < i /\ cs[j].ok)
            /\ (cs[i].op = "translate" /\ LangIndex(cs[i].lang) > 1) =>
                   \E j \in 1..(i - 1) :
                       /\ cs[j].op = "synthesize" /\ cs[j].ok
                       /\ LangIndex(cs[j].lang) = LangIndex(cs[i].lang) - 1
            /\ (cs[i].op = "create_document" /\ cs[i].arg = <<"completed">>) =>
                   /\ \E j \in 1..(i - 1) :
                          cs[j].op = "synthesize" /\ cs[j].ok /\ cs[j].lang = "kn"
                   /\ \A j \in 1..(i - 1) : cs[j].ok
            /\ (cs[i].op = "create_document" /\ cs[i].arg = <<"error">>) =>
                   \E j \in 1..(i - 1) : ~cs[j].ok
            /\ ~cs[i].ok =>
                   \A j \in (i + 1)..n : cs[j].op \notin {"translate", "write_text", "synthesize"}

\* C12's case: a run through all three languages, several chunks each, that
\* ended Completed.
C12_Witness ==
    /\ run[1].pc = "done"
    /\ Cardinality(CallsOf(1, {"translate"})) >= 6
    /\ Cardinality(CallsOf(1, {"synthesize"})) = 3
    /\ FailedCallsOf(1, {"translate", "write_text", "synthesize", "create_document"}) = {}

\* The translation calls of run r for one language, in the order made.
RECURSIVE PickCalls(_, _, _)
PickCalls(cs, op, lang) ==
    IF cs = <<>> THEN <<>>
    ELSE IF Head(cs).op = op /\ Head(cs).lang = lang
         THEN <<Head(cs)>> \o PickCalls(Tail(cs), op, lang)
         ELSE PickCalls(Tail(cs), op, lang)

\* C13: translate_text calls the translation service once per chunk of
\* chunk_text(text), in chunk order, and returns the translated chunks joined
\* by newline in that order; when the call for chunk i fails, no call is
\* made for a later chunk and no text is returned: nothing is written or
\* synthesized for that language.
C13_TranslateTextPerChunk ==
    \A r \in RunIds : \A k \in 1..3 :
        LET code == LangCodes[k]
            expected == chunk_text(run[r].source_text, DefaultMaxLen)
            tcalls == PickCalls(run[r].calls, "translate", code)
            used == PickCalls(run[r].calls, "write_text", code)
                        \o PickCalls(run[r].calls, "synthesize", code)
            whole == join([j \in 1..Len(expected) |-> translate_result(code, expected[j])])
        IN  /\ Len(tcalls) <= Len(expected)
            /\ \A j \in 1..Len(tcalls) :
                   /\ tcalls[j].arg = expected[j]
                   /\ ~tcalls[j].ok => (j = Len(tcalls) /\ used = <<>>)
            /\ used # <<>> =>
                   /\ Len(tcalls) = Len(expected)
                   /\ \A j \in 1..Len(tcalls) : tcalls[j].ok
            /\ \A j \in 1..Len(run[r].calls) :
                   (run[r].calls[j].op = "synthesize" /\ run[r].calls[j].lang = code) =>
                       run[r].calls[j].arg = whole
            /\ (run[r].pc \in {"write_text", "synthesize", "append"} /\ run[r].lang_i = k) =>
                   run[r].translated = whole

\* C13's case: the call for the second chunk of the second language failed.
C13_Witness ==
    /\ run[1].pc = "done"
    /\ Len(run[1].chunks) >= 2
    /\ Len(PickCalls(run[1].calls, "translate", "te")) = 2
    /\ ~PickCalls(run[1].calls, "translate", "te")[2].ok

\* The paths run r has opened for writing so far.
PathsWritten(r) ==
    { temp_path(r) : i \in CallsOf(r, {"open_temp"}) }
        \cup { text_path_of(run[r].temp_id, run[r].calls[i].lang) :
                   i \in CallsOf(r, {"write_text"}) }
        \cup { audio_path_of(run[r].temp_id, run[r].calls[i].lang) :
                   i \in CallsOf(r, {"synthesize"}) }

\* The record run r persists, from its own upload, its own upload id and the
\* outcomes of its own calls alone.
ErrorOf(op) ==
    CASE op = "extract" -> "ExtractError"
      [] op = "translate" -> "TranslationError"
      [] op = "write_text" -> "OSError"
      [] op = "synthesize" -> "SynthesisError"
      [] OTHER -> "PersistenceError"

OwnRecord(r, status) ==
    LET text == join(run[r].file.units)
        chs == chunk_text(text, DefaultMaxLen)
        whole(code) == join([j \in 1..Len(chs) |-> translate_result(code, chs[j])])
        failed == FailedCallsOf(r, {"extract", "translate", "write_text",
                                    "synthesize", "create_document"})
        first == CHOOSE i \in failed : \A j \in failed : i <= j
    IN  IF status = "completed"
        THEN [ job_name |-> run[r].job_name, source_filename |-> run[r].filename,
               source_language |-> "en", status |-> "completed",
               outputs |-> [k \in 1..3 |->
                   [ language |-> <<"Hindi", "Telugu", "Kannada">>[k],
                     translated_text |-> whole(LangCodes[k]),
                     audio_path |-> <<"/outputs", "/", "audio", "/", run[r].temp_id,
                                      "_", LangCodes[k], ".mp3">>,
                     text_path |-> <<"/outputs", "/", "texts", "/", run[r].temp_id,
                                     "_", LangCodes[k], ".txt">> ]],
               error |-> NoneVal ]
        ELSE [ job_name |-> run[r].job_name, source_filename |-> run[r].filename,
               source_language |-> "en", status |-> "error", outputs |-> <<>>,
               error |-> IF failed = {} THEN NoneVal ELSE ErrorOf(run[r].calls[first].op) ]

\* C15: two concurrent uploads with distinct upload ids, interleaved in any
\* order, never write the same temporary, text or audio path; neither
\* removes or overwrites the other's temporary file, which is there, whole,
\* from the end of its writing to its own finally; a file a run has written
\* stays whole; and each persisted record is the one its run's own upload
\* and own call outcomes give.
C15_ConcurrentRunsIndependent ==
    (run[1].temp_id # run[2].temp_id) =>
        /\ PathsWritten(1) \cap PathsWritten(2) = {}
        /\ \A r \in RunIds :
             /\ run[r].pc \notin {"idle", "check_ext", "open_temp", "write_temp", "done"} =>
                    /\ temp_path(r) \in DOMAIN fs
                    /\ fs[temp_path(r)] = "complete"
             /\ \A i \in CallsOf(r, {"write_text"}) :
                    run[r].calls[i].ok =>
                        /\ text_path_of(run[r].temp_id, run[r].calls[i].lang) \in DOMAIN fs
                        /\ fs[text_path_of(run[r].temp_id, run[r].calls[i].lang)] = "complete"
             /\ \A i \in CallsOf(r, {"synthesize"}) :
                    run[r].calls[i].ok =>
                        /\ audio_path_of(run[r].temp_id, run[r].calls[i].lang) \in DOMAIN fs
                        /\ fs[audio_path_of(run[r].temp_id, run[r].calls[i].lang)] = "complete"
        /\ \A i \in 1..Len(db) : db[i].doc = OwnRecord(db[i].by, db[i].doc.status)

\* C15's case: both uploads have been answered, the second to start
\* persisted first, one Completed and one Errored.
C15_Witness ==
    /\ run[1].pc = "done" /\ run[2].pc = "done"
    /\ run[1].temp_id = "u1" /\ run[2].temp_id = "u2"
    /\ Len(db) = 2
    /\ db[1].by = 2 /\ db[1].doc.status = "error"
    /\ db[2].by = 1 /\ db[2].doc.status = "completed"
    /\ run[1].file # run[2].file

\* C16: every started run eventually reaches its end, Completed or Errored,
\* and answers its caller: no retry loop, no state it cannot leave.
C16_StartedRunEnds ==
    (run[1].pc # "idle") ~> (run[1].pc = "done" /\ run[1].raised.kind # "pending")

\* C16's case: the longest way out, through the handler, with the error
\* record not persisted and the temporary file not removed.
C16_Witness ==
    /\ run[1].pc = "done"
    /\ FailedCallsOf(1, {"create_document"}) # {}
    /\ FailedCallsOf(1, {"remove"}) # {}
    /\ Cardinality(CallsOf(1, {"synthesize"})) = 3
    /\ Cardinality(CallsOf(1, {"create_document"})) = 2

\* C17 (as stated; refuted by the code): a record with status "error" is
\* persisted only for a run in which extraction, translation, artifact
\* writing or synthesis failed.
C17_ErrorRecordOnlyAfterPipelineFailure ==
    \A i \in 1..Len(db) :
        db[i].doc.status = "error" =>
            FailedCallsOf(db[i].by, {"extract", "translate", "write_text", "synthesize"}) # {}

\* A text or audio file, by its place under OUTPUT_DIR.
IsArtifact(p) == Len(p) >= 5 /\ p[5] \in {"texts", "audio"}

\* No step removes a text or audio file or makes a whole one partial.
ArtifactsKept ==
    \A p \in DOMAIN fs :
        IsArtifact(p) => (p \in DOMAIN fs' /\ (fs[p] = "complete" => fs'[p] = "complete"))

\* What an ended run leaves: every text and audio file it wrote, none of
\* them named by an "error" record, and no temporary file if it was removed.
ArtifactsLeft ==
    \A r \in RunIds :
        /\ \A i \in CallsOf(r, {"write_text"}) :
               run[r].calls[i].ok =>
                   /\ text_path_of(run[r].temp_id, run[r].calls[i].lang) \in DOMAIN fs
                   /\ fs[text_path_of(run[r].temp_id, run[r].calls[i].lang)] = "complete"
        /\ \A i \in CallsOf(r, {"synthesize"}) :
               run[r].calls[i].ok =>
                   /\ audio_path_of(run[r].temp_id, run[r].calls[i].lang) \in DOMAIN fs
                   /\ fs[audio_path_of(run[r].temp_id, run[r].calls[i].lang)] = "complete"
        /\ \A i \in RecordsOf(r) : db[i].doc.status = "error" => db[i].doc.outputs = <<>>
        /\ \A i \in CallsOf(r, {"remove"}) :
               run[r].calls[i].ok => temp_path(r) \notin DOMAIN fs

\* C18: the pipeline never deletes a text or audio file it has written.
\* When a run ends Errored, the files written for the earlier languages, and
\* the text file of the language whose synthesis failed, are still there,
\* the "error" record names none of them, and only the temporary upload file
\* is removed.
C18_ArtifactsNeverDeleted ==
    [](ArtifactsLeft) /\ [][ArtifactsKept]_vars

\* C18's case: synthesis failed for the second language; two text files and
\* one audio file are left, the temporary file is gone, the record is "error".
C18_Witness ==
    /\ run[1].pc = "done"
    /\ \E i \in FailedCallsOf(1, {"synthesize"}) : run[1].calls[i].lang = "te"
    /\ Len(db) = 1 /\ db[1].doc.status = "error"
    /\ text_path_of(run[1].temp_id, "hi") \in DOMAIN fs
    /\ audio_path_of(run[1].temp_id, "hi") \in DOMAIN fs
    /\ text_path_of(run[1].temp_id, "te") \in DOMAIN fs
    /\ temp_path(1) \notin DOMAIN fs

====
